---- MODULE Spec2Model ----
(***************************************************************************)
(* Coin selection of lib/coinchooser.py: bucketize_coins, the Classic and  *)
(* the Random/Privacy choose_buckets, and make_tx.                         *)
(*                                                                         *)
(* One call of make_tx is one behaviour.  The arguments of the call are    *)
(* drawn in Init and never change; the remaining variables are the locals  *)
(* of make_tx and of the choose_buckets it calls.  Sizes are in abstract   *)
(* units: Transaction.estimated_size and estimated_input_size live outside *)
(* lib/coinchooser.py.                                                     *)
(***************************************************************************)
EXTENDS Integers, Sequences, FiniteSets

VARIABLES strategy, coins, outputs, change_addrs, fee_estimator,
          dust_threshold, pc, buckets, selected, candidates, trial,
          examined, chosen, tx, error

vars == <<strategy, coins, outputs, change_addrs, fee_estimator,
          dust_threshold, pc, buckets, selected, candidates, trial,
          examined, chosen, tx, error>>

args == <<strategy, coins, outputs, change_addrs, fee_estimator,
          dust_threshold>>

(***************************************************************************)
(* Bounds of the model and program constants.                              *)
(***************************************************************************)
MaxCoins == 3

ManyBuckets == 11

COIN == 100000000

change_size == 34

CoinValues == {3, 10}

\* The coins a wallet may hold: small ones on addresses 1 and 2, a large
\* one on address 1.
CoinKinds ==
    {[value |-> 3, address |-> 1], [value |-> 3, address |-> 2],
     [value |-> 10, address |-> 1]}

Heights == {0, 1, 2}

Min(a, b) == IF a < b THEN a ELSE b

Max(a, b) == IF a > b THEN a ELSE b

Range(s) == {s[i] : i \in 1..Len(s)}

(***************************************************************************)
(* The arguments of make_tx.                                               *)
(***************************************************************************)
Coin(n, v, h, a) ==
    [prevout_hash |-> "tx", prevout_n |-> n, value |-> v, height |-> h,
     address |-> a]

\* Every list of n distinct unspent outputs with the given heights.
CoinLists(n, hs) ==
    {[i \in 1..n |->
         Coin(i, f[i].kind.value, f[i].height, f[i].kind.address)] :
        f \in [1..n -> [kind : CoinKinds, height : hs]]}

\* Wallets with one coin on each of three addresses.
SpreadCoins ==
    {[i \in 1..3 |-> Coin(i, v[i], 1, i)] : v \in [1..3 -> CoinValues]}

\* A wallet with one coin of the same value on each of n addresses.
WideCoins(n) == [i \in 1..n |-> Coin(i, 10, 1, i)]

OutputLists ==
    {<< <<"address", "d1", 4>> >>,
     << <<"address", "d1", 2>>, <<"address", "d2", 3>> >>,
     << <<"address", "d1", 8>> >>}

\* fee_estimator callbacks: size |-> flat + rate * size, plus step from
\* size at onwards.
FeeEstimators ==
    {[flat |-> 1, rate |-> 0, at |-> 30, step |-> 2],
     [flat |-> 0, rate |-> 2, at |-> 0, step |-> 0]}

DustThresholds == {1, 5}

\* A payment of nothing whose fee is 0 for the transaction without inputs
\* and 4 with any input: the one request the empty selection would cover.
NothingToPay == << <<"address", "d1", 0>> >>

FreeWhenBare == [flat |-> 0, rate |-> 0, at |-> 3, step |-> 4]

FeeEstimator(fe, size) ==
    fe.flat + fe.rate * size + (IF size >= fe.at THEN fe.step ELSE 0)

(***************************************************************************)
(* Transaction (lib/transaction.py), modelled in abstract size units.      *)
(***************************************************************************)
estimated_input_size(coin) == IF coin.address = 2 THEN 2 ELSE 1

estimated_size(outs) == 1 + Len(outs)

(***************************************************************************)
(* bucketize_coins                                                         *)
(***************************************************************************)
RECURSIVE SumSize(_)
SumSize(cs) ==
    IF cs = <<>> THEN 0
    ELSE estimated_input_size(Head(cs)) + SumSize(Tail(cs))

RECURSIVE SumValue(_)
SumValue(cs) ==
    IF cs = <<>> THEN 0 ELSE Head(cs).value + SumValue(Tail(cs))

ClassicKeys(cs) ==
    [i \in 1..Len(cs) |-> <<cs[i].prevout_hash, cs[i].prevout_n>>]

\* The Privacy keys taken per coin instead of per address.
PrivacyKeysPerCoin(cs) ==
    [i \in 1..Len(cs) |-> <<cs[i].address, cs[i].prevout_n>>]

PrivacyKeys(cs) == [i \in 1..Len(cs) |-> <<cs[i].address>>]

keys(cs) == IF strategy = "Classic" THEN ClassicKeys(cs) ELSE PrivacyKeys(cs)

\* The keys of the dict in order of first insertion.
RECURSIVE DictKeys(_, _)
DictKeys(ks, seen) ==
    IF ks = <<>> THEN seen
    ELSE IF Head(ks) \in Range(seen) THEN DictKeys(Tail(ks), seen)
    ELSE DictKeys(Tail(ks), Append(seen, Head(ks)))

\* buckets[key]: the coins zipped with key, in order of appending.
RECURSIVE DictValue(_, _, _)
DictValue(ks, cs, key) ==
    IF ks = <<>> \/ cs = <<>> THEN <<>>
    ELSE IF Head(ks) = key
         THEN <<Head(cs)>> \o DictValue(Tail(ks), Tail(cs), key)
         ELSE DictValue(Tail(ks), Tail(cs), key)

\* make_Bucket with the value of the first coin in place of the sum.
make_BucketFirstValue(desc, cs) ==
    [desc |-> desc, size |-> SumSize(cs), value |-> Head(cs).value,
     coins |-> cs]

make_Bucket(desc, cs) ==
    [desc |-> desc, size |-> SumSize(cs), value |-> SumValue(cs),
     coins |-> cs]

\* The list is in the dict's iteration order, which the code does not
\* control.  It is listed here by first insertion; the sort of the Classic
\* strategy breaks ties in every way and the Random strategy shuffles, which
\* covers every iteration order.
bucketize_coins(cs) ==
    LET ks == keys(cs)
        dk == DictKeys(ks, <<>>)
    IN  [i \in 1..Len(dk) |-> make_Bucket(dk[i], DictValue(ks, cs, dk[i]))]

(***************************************************************************)
(* Locals of make_tx                                                       *)
(***************************************************************************)
RECURSIVE SumAmounts(_)
SumAmounts(outs) ==
    IF outs = <<>> THEN 0 ELSE Head(outs)[3] + SumAmounts(Tail(outs))

output_total == SumAmounts(outputs)

base_size == estimated_size(outputs)

fee(input_size) == FeeEstimator(fee_estimator, base_size + input_size)

RECURSIVE TotalValue(_)
TotalValue(bkts) ==
    IF bkts = <<>> THEN 0 ELSE Head(bkts).value + TotalValue(Tail(bkts))

RECURSIVE TotalSize(_)
TotalSize(bkts) ==
    IF bkts = <<>> THEN 0 ELSE Head(bkts).size + TotalSize(Tail(bkts))

NoTx == [inputs |-> <<>>, outputs |-> <<>>]

Init ==
    /\ \/ /\ strategy = "Classic"
          /\ \E n \in 0..MaxCoins : coins \in CoinLists(n, Heights)
          /\ outputs \in OutputLists
          /\ fee_estimator \in FeeEstimators
          /\ dust_threshold \in DustThresholds
       \/ /\ strategy = "Classic"
          /\ \E n \in 0..MaxCoins : coins \in CoinLists(n, Heights)
          /\ outputs = NothingToPay
          /\ fee_estimator = FreeWhenBare
          /\ dust_threshold \in DustThresholds
       \/ /\ strategy = "Privacy"
          /\ \/ \E n \in 0..MaxCoins : coins \in CoinLists(n, {1})
             \/ coins \in SpreadCoins
          /\ outputs \in OutputLists
          /\ fee_estimator \in FeeEstimators
          /\ dust_threshold \in DustThresholds
       \/ /\ strategy = "Privacy"
          /\ coins = WideCoins(ManyBuckets)
          /\ outputs = << <<"address", "d1", 4>> >>
          /\ fee_estimator = [flat |-> 1, rate |-> 0, at |-> 30, step |-> 2]
          /\ dust_threshold = 1
    /\ change_addrs = <<"c1", "c2">>
    /\ pc = "start"
    /\ buckets = <<>>
    /\ selected = <<>>
    /\ candidates = {}
    /\ trial = 0
    /\ examined = 0
    /\ chosen = <<>>
    /\ tx = NoTx
    /\ error = "none"

\* make_tx, lines 53-62: the buckets of the supplied coins.
Bucketize ==
    /\ pc = "start"
    /\ buckets' = bucketize_coins(coins)
    /\ pc' = IF strategy = "Classic" THEN "accumulate" ELSE "singletons"
    /\ UNCHANGED <<args, selected, candidates, trial, examined, chosen, tx,
                   error>>

(***************************************************************************)
(* CoinChooserClassic.choose_buckets                                       *)
(***************************************************************************)
\* Line 98 without the adjustment: unconfirmed coins count as oldest.
adj_height_plain(height) == height

adj_height(height) == IF height = 0 THEN 99999999 ELSE height

RECURSIVE MaxAdjHeight(_)
MaxAdjHeight(cs) ==
    IF Len(cs) = 1 THEN adj_height(Head(cs).height)
    ELSE Max(adj_height(Head(cs).height), MaxAdjHeight(Tail(cs)))

\* The sort key of line 99.
sort_key(b) == MaxAdjHeight(b.coins)

\* buckets.sort(key = ...): every arrangement of the buckets S in ascending
\* key order; buckets of equal key keep the order they had in the list,
\* which is the dict's and so may be any.
RECURSIVE SortedByKey(_)
SortedByKey(S) ==
    IF S = {} THEN {<<>>}
    ELSE LET least == {b \in S : \A o \in S : sort_key(b) <= sort_key(o)}
         IN  UNION {{<<b>> \o rest : rest \in SortedByKey(S \ {b})} :
                        b \in least}

\* The test of line 106 without the fee.
EnoughWithoutFee(value, size, spent_amount) == value >= spent_amount

\* Line 106.
Enough(value, size, spent_amount) == value >= spent_amount + fee(size)

\* Lines 101-109: the length of the shortest prefix of the sorted buckets
\* that is enough, 0 when the loop runs off the end of the list.
RECURSIVE AccumulateLoop(_, _, _, _)
AccumulateLoop(bkts, k, value, size) ==
    IF k > Len(bkts) THEN 0
    ELSE LET v == value + bkts[k].value
             z == size + bkts[k].size
         IN  IF Enough(v, z, output_total) THEN k
             ELSE AccumulateLoop(bkts, k + 1, v, z)

\* selected.sort(key = lambda b: b.value): a stable insertion sort.
RECURSIVE InsertByValue(_, _)
InsertByValue(sorted, b) ==
    IF sorted = <<>> THEN <<b>>
    ELSE IF Head(sorted).value <= b.value
         THEN <<Head(sorted)>> \o InsertByValue(Tail(sorted), b)
         ELSE <<b>> \o sorted

RECURSIVE SortByValue(_)
SortByValue(bkts) ==
    IF bkts = <<>> THEN <<>>
    ELSE InsertByValue(SortByValue(SubSeq(bkts, 1, Len(bkts) - 1)),
                       bkts[Len(bkts)])

\* Line 115.
Unneeded(bucket, value, size, spent_amount) ==
    value - bucket.value >= spent_amount + fee(size - bucket.size)

\* Lines 113-118: the buckets dropped by one pass over selected.
RECURSIVE TrimLoop(_, _, _, _, _)
TrimLoop(sel, i, value, size, dropped) ==
    IF i > Len(sel) THEN dropped
    ELSE IF Unneeded(sel[i], value, size, output_total)
         THEN TrimLoop(sel, i + 1, value - sel[i].value,
                       size - sel[i].size, Append(dropped, sel[i]))
         ELSE TrimLoop(sel, i + 1, value, size, dropped)

\* Lines 98-109: sort oldest first and accumulate until enough.
ClassicAccumulate ==
    /\ pc = "accumulate"
    /\ \E sorted \in SortedByKey(Range(buckets)) :
          LET k == AccumulateLoop(sorted, 1, 0, 0)
          IN  /\ buckets' = sorted
              /\ IF k = 0
                 THEN /\ error' = "NotEnoughFunds"
                      /\ pc' = "raised"
                      /\ selected' = sorted
                 ELSE /\ error' = error
                      /\ pc' = "trim"
                      /\ selected' = SubSeq(sorted, 1, k)
    /\ UNCHANGED <<args, candidates, trial, examined, chosen, tx>>

\* Lines 111-120: remove unneeded buckets starting with the smallest.
ClassicTrim ==
    /\ pc = "trim"
    /\ LET sel == SortByValue(selected)
           dropped == TrimLoop(sel, 1, TotalValue(sel), TotalSize(sel), <<>>)
       IN  /\ selected' = sel
           /\ chosen' = SelectSeq(sel, LAMBDA b : b \notin Range(dropped))
    /\ pc' = "assemble"
    /\ UNCHANGED <<args, buckets, candidates, trial, examined, tx, error>>

(***************************************************************************)
(* CoinChooserRandom.bucket_candidates and choose_buckets                  *)
(***************************************************************************)
\* [buckets[n] for n in idx]; list positions count from 1 here.
BucketsAt(idx) == [i \in 1..Len(idx) |-> buckets[idx[i]]]

\* Lines 153-158.
sufficient(bkts, spent_amount) ==
    TotalValue(bkts) >= spent_amount + fee(TotalSize(bkts))

\* Line 134 without the cap.
AttemptsUncapped(n) == (n - 1) * 10 + 1

\* Line 134.
Attempts(n) == Min(100, (n - 1) * 10 + 1)

\* tuple(sorted(S))
RECURSIVE SortedTuple(_)
SortedTuple(S) ==
    IF S = {} THEN <<>>
    ELSE LET m == CHOOSE x \in S : \A y \in S : x <= y
         IN  <<m>> \o SortedTuple(S \ {m})

\* Lines 139-147: shuffle draws any permutation of the bucket indices and
\* the inner loop reads it up to the first prefix that is sufficient.  The
\* runs of the loop over all permutations, from the part perm read so far:
\* found tells break from the else branch of the for.
RECURSIVE TrialRuns(_)
TrialRuns(perm) ==
    IF perm # <<>> /\ sufficient(BucketsAt(perm), output_total)
    THEN {[read |-> perm, found |-> TRUE]}
    ELSE IF Len(perm) = Len(buckets)
         THEN {[read |-> perm, found |-> FALSE]}
         ELSE UNION {TrialRuns(Append(perm, n)) :
                         n \in (1..Len(buckets)) \ Range(perm)}

(***************************************************************************)
(* CoinChooserPrivacy.penalty.  The float badness is kept exactly, as the  *)
(* pair <<hi, lo>> that stands for                                         *)
(*   (hi * (COIN * 5) + lo) / ((spent_amount + 10000) * (COIN * 5))        *)
(* with 0 <= lo < COIN * 5; spent_amount is the same for all candidates of *)
(* a call, so penalties compare as their pairs do.                         *)
(***************************************************************************)
OutsideBand(change, spent_amount) ==
    \/ 100 * change < 75 * spent_amount
    \/ 100 * change > 133 * spent_amount

penalty(bkts, spent_amount) ==
    LET badness == Len(bkts) - 1
        change == TotalValue(bkts) - spent_amount
        hi == badness * (spent_amount + 10000)
              + (IF OutsideBand(change, spent_amount) THEN change ELSE 0)
        lo == change * (spent_amount + 10000)
    IN  <<hi + (lo \div (COIN * 5)), lo % (COIN * 5)>>

PenaltyLeq(p, q) == p[1] < q[1] \/ (p[1] = q[1] /\ p[2] <= q[2])

\* Lines 161-162 with max in place of min.
WinnersOfMaxPenalty(cands, spent_amount) ==
    {c \in cands : \A d \in cands :
        PenaltyLeq(penalty(BucketsAt(d), spent_amount),
                   penalty(BucketsAt(c), spent_amount))}

\* Lines 161-162: candidates[penalties.index(min(penalties))].  The list
\* is in the iteration order of a set, so the first candidate of minimum
\* penalty may be any candidate of minimum penalty.
Winners(cands, spent_amount) ==
    {c \in cands : \A d \in cands :
        PenaltyLeq(penalty(BucketsAt(c), spent_amount),
                   penalty(BucketsAt(d), spent_amount))}

\* Lines 126-131: all sufficient singletons.
Singletons ==
    /\ pc = "singletons"
    /\ candidates' = {<<n>> : n \in {m \in 1..Len(buckets) :
                          sufficient(<<buckets[m]>>, output_total)}}
    /\ trial' = 0
    /\ pc' = "trials"
    /\ UNCHANGED <<args, buckets, selected, examined, chosen, tx, error>>

\* Lines 136-147: one pass of the for loop over range(attempts).
Trial ==
    /\ pc = "trials"
    /\ trial < Attempts(Len(buckets))
    /\ \E run \in TrialRuns(<<>>) :
          /\ examined' = Len(run.read)
          /\ IF run.found
             THEN /\ candidates' =
                         candidates \cup {SortedTuple(Range(run.read))}
                  /\ trial' = trial + 1
                  /\ pc' = pc
                  /\ error' = error
             ELSE /\ error' = "NotEnoughFunds"
                  /\ pc' = "raised"
                  /\ UNCHANGED <<candidates, trial>>
    /\ UNCHANGED <<args, buckets, selected, chosen, tx>>

\* Line 149: the loop is over, bucket_candidates returns.
ReturnCandidates ==
    /\ pc = "trials"
    /\ trial >= Attempts(Len(buckets))
    /\ pc' = "score"
    /\ UNCHANGED <<args, buckets, selected, candidates, trial, examined,
                   chosen, tx, error>>

\* Lines 161-165: min() of an empty list raises ValueError.
PickWinner ==
    /\ pc = "score"
    /\ IF candidates = {}
       THEN /\ error' = "ValueError"
            /\ pc' = "raised"
            /\ chosen' = chosen
       ELSE /\ \E winner \in Winners(candidates, output_total) :
                  chosen' = BucketsAt(winner)
            /\ pc' = "assemble"
            /\ error' = error
    /\ UNCHANGED <<args, buckets, selected, candidates, trial, examined, tx>>

(***************************************************************************)
(* make_tx, lines 65-84                                                    *)
(***************************************************************************)
RECURSIVE Inputs(_)
Inputs(bkts) ==
    IF bkts = <<>> THEN <<>> ELSE Head(bkts).coins \o Inputs(Tail(bkts))

\* Lines 66-74 with the fee taken at the size without the change output.
ChangeAmountAtTxSize(bkts) ==
    LET input_total == TotalValue(bkts)
        tx_size == base_size + TotalSize(bkts)
    IN  input_total - (output_total + FeeEstimator(fee_estimator, tx_size))

\* Lines 66-74.
ChangeAmount(bkts) ==
    LET input_total == TotalValue(bkts)
        tx_size == base_size + TotalSize(bkts)
    IN  input_total
        - (output_total + FeeEstimator(fee_estimator, tx_size + change_size))

\* Lines 75-76.
WithChange(outs, change_amount) ==
    IF change_amount > dust_threshold
    THEN Append(outs, <<"address", change_addrs[1], change_amount>>)
    ELSE outs

Assemble ==
    /\ pc = "assemble"
    /\ tx' = [inputs |-> Inputs(chosen),
              outputs |-> WithChange(outputs, ChangeAmount(chosen))]
    /\ pc' = "returned"
    /\ UNCHANGED <<args, buckets, selected, candidates, trial, examined,
                   chosen, error>>

Next ==
    \/ Bucketize
    \/ ClassicAccumulate
    \/ ClassicTrim
    \/ Singletons
    \/ Trial
    \/ ReturnCandidates
    \/ PickWinner
    \/ Assemble

Spec == Init /\ [][Next]_vars

\* The call runs to completion: nothing suspends it.
FairSpec == Spec /\ WF_vars(Next)

\* One call of CoinChooserPrivacy.make_tx alone.
InitRandom == Init /\ strategy = "Privacy"

NextRandom ==
    \/ Bucketize
    \/ Singletons
    \/ Trial
    \/ ReturnCandidates
    \/ PickWinner
    \/ Assemble

SpecRandom == InitRandom /\ [][NextRandom]_vars /\ WF_vars(NextRandom)

(***************************************************************************)
(* Properties                                                              *)
(***************************************************************************)
Returned == pc = "returned"

Finished == pc \in {"returned", "raised"}

FeeAt(size) == FeeEstimator(fee_estimator, size)

\* value >= output_total + fee_estimator(base size + size of the buckets)
Covers(bkts) ==
    TotalValue(bkts) >= output_total + FeeAt(base_size + TotalSize(bkts))

\* C1 (Sufficiency): in every draft make_tx returns, the value of the
\* inputs is at least the output total plus the fee estimated at the size
\* of the transaction without a change output.
C1_Sufficiency ==
    Returned =>
        SumValue(tx.inputs)
            >= output_total + FeeAt(base_size + SumSize(tx.inputs))

\* A draft with two inputs whose fee depends on the size is returned.
C1_Witness ==
    /\ Returned
    /\ Len(tx.inputs) = 2
    /\ fee_estimator.rate > 0

C2_Change ==
    SumValue(tx.inputs)
        - (output_total + FeeAt(base_size + SumSize(tx.inputs) + 34))

\* C2 (Change decision): the outputs of a returned draft are the requested
\* outputs in their order followed by one change output to change_addrs[0]
\* of the change amount when that amount exceeds dust_threshold, and are
\* exactly the requested outputs otherwise.
C2_ChangeDecision ==
    Returned =>
        IF C2_Change > dust_threshold
        THEN tx.outputs
                 = outputs \o << <<"address", change_addrs[1], C2_Change>> >>
        ELSE tx.outputs = outputs

\* Dust is folded into the fee: a positive change amount not above the
\* threshold, two requested outputs, and a draft without change output.
C2_Witness ==
    /\ Returned
    /\ C2_Change > 0
    /\ C2_Change <= dust_threshold
    /\ Len(outputs) = 2
    /\ tx.outputs = outputs

\* A change output is appended behind two requested outputs.
C2_WitnessChange ==
    /\ Returned
    /\ C2_Change > dust_threshold
    /\ Len(outputs) = 2
    /\ Len(tx.outputs) = 3

CoinsOf(a) == {i \in 1..Len(coins) : coins[i].address = a}

Spent(i) == coins[i] \in Range(tx.inputs)

\* C3 (Privacy all-or-nothing): a draft returned by the Privacy strategy
\* spends, for every address, all of the supplied coins of that address or
\* none of them.
C3_AllOrNothing ==
    (Returned /\ strategy = "Privacy") =>
        \A a \in {coins[i].address : i \in 1..Len(coins)} :
            \/ \A i \in CoinsOf(a) : Spent(i)
            \/ \A i \in CoinsOf(a) : ~Spent(i)

\* One address has two coins, both spent; another address is left alone.
C3_Witness ==
    /\ Returned
    /\ strategy = "Privacy"
    /\ \E a \in {coins[i].address : i \in 1..Len(coins)} :
          /\ Cardinality(CoinsOf(a)) = 2
          /\ \A i \in CoinsOf(a) : Spent(i)
    /\ \E i \in 1..Len(coins) : ~Spent(i)

\* C4 (Classic minimality): removing any single bucket from the selection
\* the Classic strategy returns leaves a selection that is not sufficient.
C4_ClassicMinimal ==
    (strategy = "Classic" /\ pc \in {"assemble", "returned"}) =>
        \A i \in 1..Len(chosen) :
            TotalValue(chosen) - chosen[i].value
                < output_total
                  + FeeAt(base_size + TotalSize(chosen) - chosen[i].size)

BucketSets == SUBSET (1..Len(buckets)) \ {{}}

NoSufficientSubset ==
    \A S \in BucketSets : ~Covers(BucketsAt(SortedTuple(S)))

\* C5 (Insufficient funds is the only failure): when no set of buckets is
\* sufficient, the empty coin set included, make_tx ends by raising
\* NotEnoughFunds, raises nothing else and returns no draft.
C5_OnlyNotEnoughFunds ==
    (Finished /\ NoSufficientSubset) =>
        (pc = "raised" /\ error = "NotEnoughFunds" /\ tx = NoTx)

Height(b) == b.coins[1].height

Unconfirmed(b) == Height(b) = 0

\* b is strictly older than o
Older(b, o) == ~Unconfirmed(b) /\ (Unconfirmed(o) \/ Height(b) < Height(o))

Accumulated == SubSeq(buckets, 1, Len(selected))

Confirmed == SelectSeq(buckets, LAMBDA b : ~Unconfirmed(b))

C6_WitnessNothingToPay ==
    /\ Returned
    /\ strategy = "Classic"
    /\ output_total + FeeAt(base_size) = 0
    /\ Confirmed = <<>>
    /\ Len(chosen) = 2

Random == strategy = "Privacy" /\ pc \notin {"start", "singletons"}

\* C7 as stated: the number of trials never exceeds
\* min(100, (bucket_count - 1) * 10 + 1).
C7_Original ==
    Random => trial <= Min(100, (Len(buckets) - 1) * 10 + 1)

\* C7 (Bounded trials and termination), amended: bucket_candidates runs at
\* most max(0, min(100, (bucket_count - 1) * 10 + 1)) trials, each trial
\* examines at most bucket_count buckets, and the call ends by returning
\* its candidates or by raising NotEnoughFunds.
C7_BoundedTrials ==
    /\ [](Random =>
            /\ trial <= Max(0, Min(100, (Len(buckets) - 1) * 10 + 1))
            /\ examined <= Len(buckets))
    /\ (strategy = "Privacy" /\ pc = "singletons") ~>
            (pc = "score" \/ (pc = "raised" /\ error = "NotEnoughFunds"))

\* With eleven buckets the cap of 100 trials is reached and the candidates
\* are returned.
C7_Witness ==
    /\ pc = "score"
    /\ Len(buckets) = 11
    /\ trial = 100
    /\ examined = 1

KeyOf(c) ==
    IF strategy = "Classic" THEN <<c.prevout_hash, c.prevout_n>>
    ELSE <<c.address>>

Places(i) ==
    {<<b, j>> \in (1..Len(buckets)) \X (1..Len(coins)) :
        j <= Len(buckets[b].coins) /\ buckets[b].coins[j] = coins[i]}

\* C8 (Bucket partition): every supplied coin is in exactly one bucket
\* exactly once and the buckets hold nothing else, the coins of a bucket
\* share their key and coins of one key share their bucket, value and size
\* of a bucket are the sums over its coins, and no coins give no buckets.
C8_BucketPartition ==
    pc # "start" =>
        /\ \A i \in 1..Len(coins) : Cardinality(Places(i)) = 1
        /\ \A b \in 1..Len(buckets) :
               /\ buckets[b].coins # <<>>
               /\ Range(buckets[b].coins) \subseteq Range(coins)
               /\ \A c \in Range(buckets[b].coins) : KeyOf(c) = buckets[b].desc
               /\ buckets[b].value = SumValue(buckets[b].coins)
               /\ buckets[b].size = SumSize(buckets[b].coins)
        /\ \A b, d \in 1..Len(buckets) :
               buckets[b].desc = buckets[d].desc => b = d
        /\ coins = <<>> => buckets = <<>>

\* Three coins on two addresses make two buckets, one of them of two coins.
C8_Witness ==
    /\ pc = "trials"
    /\ Len(coins) = 3
    /\ Len(buckets) = 2
    /\ \E b \in 1..2 : Len(buckets[b].coins) = 2

\* C9 (Random-strategy failure only on the first trial): a trial that runs
\* through the whole permutation without reaching sufficiency is the first
\* trial; once a trial has succeeded no later trial raises NotEnoughFunds.
C9_FailureOnlyOnFirstTrial ==
    (strategy = "Privacy" /\ error = "NotEnoughFunds") => trial = 0

Distinct(bkts) ==
    \A i, j \in 1..Len(bkts) : bkts[i] = bkts[j] => i = j

\* C10 (Privacy winner): the bucket set choose_buckets returns is
\* sufficient, holds no bucket twice, and its penalty is at most that of
\* every candidate and at most that of every bucket sufficient on its own.
C10_MinimumPenalty ==
    (strategy = "Privacy" /\ pc \in {"assemble", "returned"}) =>
        /\ Covers(chosen)
        /\ Distinct(chosen)
        /\ Range(chosen) \subseteq Range(buckets)
        /\ \A c \in candidates :
               PenaltyLeq(penalty(chosen, output_total),
                          penalty(BucketsAt(c), output_total))
        /\ \A n \in 1..Len(buckets) :
               Covers(<<buckets[n]>>) =>
                   PenaltyLeq(penalty(chosen, output_total),
                              penalty(<<buckets[n]>>, output_total))

\* Two buckets are each sufficient alone and the winner is the one of the
\* larger value, whose change lies in the band around the spent amount.
C10_Witness ==
    /\ Returned
    /\ strategy = "Privacy"
    /\ Len(buckets) = 2
    /\ Covers(<<buckets[1]>>)
    /\ Covers(<<buckets[2]>>)
    /\ Len(chosen) = 1
    /\ \E n \in 1..2 : buckets[n].value < chosen[1].value

====
